---- MODULE Spec2Model ----
(***************************************************************************)
(* Model of the retrieval core of ai-text-analysis-rigger                   *)
(* (src/src/knowledge_base.py): the KnowledgeBase instance, the style guide *)
(* file it watches, and get_relevant_guidelines / get_stats.                *)
(*                                                                         *)
(* Texts are sequences of tokens.  A token is a record with a kind k:       *)
(*   "open"/"close"  an XML tag <tag> / </tag>                              *)
(*   "blank"         a blank-line boundary (two or more newlines)           *)
(*   "nl"            a single newline                                       *)
(*   "sp"            a single space                                         *)
(*   "stop"          a full stop on its own                                 *)
(*   "part"          the first len characters of the token of               *)
(*   "bullet"        a bullet marker at the start of a line, with the       *)
(*                   whitespace after it                                    *)
(*   "text"          a sentence of len characters, ending in a full stop    *)
(*                   that is followed by whitespace; id identifies the      *)
(*                   wording, lead says how it starts ("plain", "hash" for  *)
(*                   '#', "fence" for a code fence)                         *)
(***************************************************************************)
EXTENDS Integers, Sequences, FiniteSets, TLC

VARIABLES
    fs_exists,       \* style_guide_path.exists()
    fs_mtime,        \* style_guide_path.stat().st_mtime
    fs_doc,          \* the content of the style guide file
    min_guidelines,  \* self.min_guidelines
    max_guidelines,  \* self.max_guidelines
    chunks,          \* self.chunks
    embeddings,      \* self.embeddings
    index,           \* self.index
    last_modified,   \* self.last_modified
    born_absent,     \* whether __init__ found no style guide
    call,            \* what the call just made on the instance did and returned
    ad,              \* the adaptive-count harness: inputs and result
    ck,              \* the chunker harness: a text and its chunkings
    fm,              \* the formatter harness: a list of entries and its rendering
    cc,              \* two interleaved get_relevant_guidelines calls
    sx,              \* sentence harness: the hits of one search and what is made of them
    ag,              \* agent harness: one run of AgenticAnalyzer.analyze_with_iterations
    sv               \* save harness: one call of TextAnalyzer.save_corrected_file

vars == <<fs_exists, fs_mtime, fs_doc, min_guidelines, max_guidelines,
          chunks, embeddings, index, last_modified, born_absent, call, ad,
          ck, fm, cc, sx, ag, sv>>

\* The harness variables other than ad.
others == <<ck, fm, cc, sx, ag, sv>>

kbvars == <<fs_exists, fs_mtime, fs_doc, min_guidelines, max_guidelines,
            chunks, embeddings, index, last_modified, born_absent, call>>

----------------------------------------------------------------------------
(* Bounds of the model *)

\* The source's modification time advances at most to MaxMtime.
MaxMtime == 3

\* Explicit top_k values are drawn from 1..MaxTopK.
MaxTopK == 2

\* The adaptive count is applied to texts of 0..MaxWords words,
MaxWords == 600

\* with min_guidelines in 1..MaxMin
MaxMin == 2

\* and max_guidelines - min_guidelines in 0..MaxSpread.
MaxSpread == 50

----------------------------------------------------------------------------
(* Tokens and documents *)

Open(t)  == [k |-> "open", tag |-> t]
Close(t) == [k |-> "close", tag |-> t]
Blank    == [k |-> "blank"]
Nl       == [k |-> "nl"]
Sp       == [k |-> "sp"]
Stop     == [k |-> "stop"]
Bullet   == [k |-> "bullet"]
Part(t, n) == [k |-> "part", of |-> t, len |-> n]
Text(i, n) == [k |-> "text", id |-> i, len |-> n, lead |-> "plain"]

\* Number of characters of a token.
TokLen(t) ==
    CASE t.k = "open"   -> 3
      [] t.k = "close"  -> 4
      [] t.k = "blank"  -> 2
      [] t.k = "nl"     -> 1
      [] t.k = "sp"     -> 1
      [] t.k = "stop"   -> 1
      [] t.k = "part"   -> t.len
      [] t.k = "bullet" -> 2
      [] t.k = "text"   -> t.len

RECURSIVE TextLen(_)
TextLen(s) == IF s = <<>> THEN 0 ELSE TokLen(Head(s)) + TextLen(Tail(s))

IsSpace(t) == t.k \in {"blank", "nl", "sp"}

\* str.strip()
RECURSIVE LStrip(_)
LStrip(s) == IF s # <<>> /\ IsSpace(Head(s)) THEN LStrip(Tail(s)) ELSE s

RECURSIVE RStrip(_)
RStrip(s) ==
    IF s # <<>> /\ IsSpace(s[Len(s)]) THEN RStrip(SubSeq(s, 1, Len(s) - 1)) ELSE s

Strip(s) == RStrip(LStrip(s))

\* The style guides the file may hold.
DocEmpty    == <<>>
DocNoTags   == <<Text(1, 60)>>
DocOne      == <<Open("a"), Text(2, 30), Close("a")>>
DocTwo      == <<Open("a"), Text(2, 30), Close("a"), Nl,
                 Open("b"), Bullet, Text(4, 30), Nl, Bullet, Text(5, 10), Close("b")>>

DocLong     == <<Open("c"), Text(6, 30), Sp, Text(7, 30), Sp, Text(8, 30), Sp,
                 Text(9, 30), Close("c")>>

Docs == {DocEmpty, DocNoTags, DocOne, DocTwo, DocLong}

----------------------------------------------------------------------------
(* Chunker *)

\* Skip very short bullets: len(bullet_text) > 20
MinBulletLen == 20

\* Skip very short paragraphs: len(para) > 50
MinParaLen == 50

\* The position of the first </tag> after position i, or 0.
FirstClose(doc, i, tag) ==
    LET js == {j \in (i + 1)..Len(doc) : doc[j] = Close(tag)}
    IN IF js = {} THEN 0 ELSE CHOOSE j \in js : \A l \in js : j <= l

\* sections[tag] = section_content on a dict kept as a sequence of pairs in
\* insertion order: a key already present keeps its place and takes the value.
DictPut(d, tag, body) ==
    IF \E p \in 1..Len(d) : d[p].tag = tag
    THEN [p \in 1..Len(d) |->
             IF d[p].tag = tag THEN [tag |-> tag, body |-> body] ELSE d[p]]
    ELSE Append(d, [tag |-> tag, body |-> body])

\* re.findall(r'<(\w+)>(.*?)</\1>', content, re.DOTALL), left to right,
\* each match stored under its tag.
RECURSIVE ExtractSectionsFrom(_, _, _)
ExtractSectionsFrom(doc, i, d) ==
    IF i > Len(doc) THEN d
    ELSE IF doc[i].k = "open" /\ FirstClose(doc, i, doc[i].tag) # 0
    THEN LET j == FirstClose(doc, i, doc[i].tag)
         IN ExtractSectionsFrom(doc, j + 1,
                DictPut(d, doc[i].tag, SubSeq(doc, i + 1, j - 1)))
    ELSE ExtractSectionsFrom(doc, i + 1, d)

ExtractSections(doc) == ExtractSectionsFrom(doc, 1, <<>>)

\* A chunk filed under its kind instead of its section.
ChunkFiledByType(section, content, type) ==
    [section |-> type, content |-> content, type |-> type, original |-> content]

Chunk(section, content, type) ==
    [section |-> section, content |-> content, type |-> type, original |-> content]

\* The pieces of s between the tokens of kind sep (re.split on that boundary).
RECURSIVE SplitOn(_, _, _)
SplitOn(s, sep, cur) ==
    IF s = <<>> THEN <<cur>>
    ELSE IF Head(s).k = sep THEN <<cur>> \o SplitOn(Tail(s), sep, <<>>)
    ELSE SplitOn(Tail(s), sep, Append(cur, Head(s)))

\* re.findall(bullet_pattern, content, MULTILINE | DOTALL): each item runs from
\* after its marker to the next marker or the end, and has at least one character.
BulletItems(content) ==
    LET parts == SplitOn(content, "bullet", <<>>)
    IN SelectSeq(Tail(parts), LAMBDA p : p # <<>>)

StartsWithLead(para, lead) ==
    para # <<>> /\ Head(para).k = "text" /\ Head(para).lead = lead

RECURSIVE AddParagraphs(_, _, _)
AddParagraphs(name, paras, acc) ==
    IF paras = <<>> THEN acc
    ELSE LET para == Strip(Head(paras))
             keep == /\ TextLen(para) > MinParaLen
                     /\ ~StartsWithLead(para, "hash")
                     /\ ~StartsWithLead(para, "fence")
                     /\ \A p \in 1..Len(acc) : acc[p].content # para
         IN AddParagraphs(name, Tail(paras),
                IF keep THEN Append(acc, Chunk(name, para, "paragraph")) ELSE acc)

\* KnowledgeBase._chunk_section
ChunkSection(name, content) ==
    LET items   == BulletItems(content)
        bullets == [p \in 1..Len(items) |-> Chunk(name, Strip(items[p]), "sub-item")]
        kept    == SelectSeq(bullets, LAMBDA c : TextLen(c.content) > MinBulletLen)
    IN AddParagraphs(name, SplitOn(content, "blank", <<>>), kept)

RECURSIVE ChunkSections(_)
ChunkSections(secs) ==
    IF secs = <<>> THEN <<>>
    ELSE <<Chunk(Head(secs).tag, Strip(Head(secs).body), "section")>>
         \o ChunkSection(Head(secs).tag, Head(secs).body)
         \o ChunkSections(Tail(secs))

\* KnowledgeBase._load_and_chunk
LoadAndChunk(doc) == ChunkSections(ExtractSections(doc))

---------------------------------------------------------------------------------------------------------------------------------------------------
(* Python float arithmetic (IEEE 754 binary64: 53 significant bits, round   *)
(* to nearest, ties to even) on the values _adaptive_retrieval_count        *)
(* computes.  A positive float is [top, frac, s]: the value                 *)
(* (top + 0.frac) * 2^-s, where frac is four limbs of 13 bits (52 bits      *)
(* after the binary point) and top >= 1 holds the leading bits.             *)

\* One limb of the significand: 13 bits.
Limb == 2^13

\* The number of bits of n >= 1.
BitLen(n) == CHOOSE t \in 1..31 : 2^(t - 1) <= n /\ n < 2^t

\* The least s with num * 2^s >= den.
RECURSIVE Shift(_, _)
Shift(num, den) == IF num >= den THEN 0 ELSE 1 + Shift(2 * num, den)

\* x + inc units of the last place of the fraction, carried upwards.
AddFrac(x, inc) ==
    LET a4 == x.frac[4] + inc
        a3 == x.frac[3] + a4 \div Limb
        a2 == x.frac[2] + a3 \div Limb
        a1 == x.frac[1] + a2 \div Limb
    IN [top  |-> x.top + a1 \div Limb,
        frac |-> <<a1 % Limb, a2 % Limb, a3 % Limb, a4 % Limb>>,
        s    |-> x.s]

\* The next 13 bits of r / den (0 <= r < den) and the remainder left.
DivStep(r, den) == [limb |-> (r * Limb) \div den, rem |-> (r * Limb) % den]

\* num / den as Python computes it for ints 0 < num <= den < 2^13: the
\* quotient scaled into [1, 2), 52 bits of it after the point, rounded on the
\* 53rd and on what is left after it.
FloatDiv(num, den) ==
    LET s  == Shift(num, den)
        d1 == DivStep(num * 2^s - den, den)
        d2 == DivStep(d1.rem, den)
        d3 == DivStep(d2.rem, den)
        d4 == DivStep(d3.rem, den)
        guard  == 2 * d4.rem >= den
        sticky == (2 * d4.rem) % den # 0
        up     == guard /\ (sticky \/ d4.limb % 2 = 1)
    IN AddFrac([top |-> 1, frac |-> <<d1.limb, d2.limb, d3.limb, d4.limb>>, s |-> s],
               IF up THEN 1 ELSE 0)

\* x * d as Python computes it for a float x > 0 and an int 0 < d < 2^12: the
\* exact product, then rounded to 53 bits counted from its leading bit, which
\* drops the lowest BitLen(top) - 1 bits of the fraction.
FloatMul(x, d) ==
    LET m4 == x.frac[4] * d
        m3 == x.frac[3] * d + m4 \div Limb
        m2 == x.frac[2] * d + m3 \div Limb
        m1 == x.frac[1] * d + m2 \div Limb
        top  == x.top * d + m1 \div Limb
        unit == 2^(BitLen(top) - 1)
        low  == (m4 % Limb) % unit
        guard  == unit > 1 /\ 2 * low >= unit
        sticky == unit > 1 /\ (2 * low) % unit # 0
        up     == guard /\ (sticky \/ ((m4 % Limb) \div unit) % 2 = 1)
    IN AddFrac([top |-> top,
                frac |-> <<m1 % Limb, m2 % Limb, m3 % Limb, (m4 % Limb) - low>>,
                s |-> x.s],
               IF up THEN unit ELSE 0)

\* int(x) for a float x > 0: the integer part.
FloatToInt(x) == x.top \div 2^x.s

\* int(((word_count - 100) / 400) * (max_guidelines - min_guidelines)):
\* int(num / den * d) for 0 <= num <= den; int() truncates towards zero.
IntRatioTimes(num, den, d) ==
    IF num = 0 \/ d = 0 THEN 0
    ELSE IF d > 0 THEN FloatToInt(FloatMul(FloatDiv(num, den), d))
    ELSE 0 - FloatToInt(FloatMul(FloatDiv(num, den), 0 - d))

----------------------------------------------------------------------------
(* Adaptive retrieval count *)

\* if word_count < 100
ShortWords == 100

\* elif word_count > 500
LongWords == 500

\* ratio = (word_count - 100) / 400
WordSpan == 400

\* A count without the interpolated middle range: every text up to the upper
\* threshold gets the minimum.
AdaptiveRetrievalCountStep(word_count, mn, mx) ==
    IF word_count <= LongWords THEN mn ELSE mx

\* KnowledgeBase._adaptive_retrieval_count, on the word count of the text.
AdaptiveRetrievalCount(word_count, mn, mx) ==
    IF word_count < ShortWords THEN mn
    ELSE IF word_count > LongWords THEN mx
    ELSE mn + IntRatioTimes(word_count - ShortWords, WordSpan, mx - mn)

----------------------------------------------------------------------------
(* Embedder and vector index *)

\* self.model.encode on one text: the embedding is a function of the wording
\* alone (one coordinate: the sum of the ids of its sentences).
RECURSIVE Embed(_)
Embed(text) ==
    IF text = <<>> THEN 0
    ELSE (IF Head(text).k = "text" THEN Head(text).id ELSE 0) + Embed(Tail(text))

\* self.model.encode(texts_to_embed): one row per chunk, in chunk order.
EncodeChunks(cs) == [p \in 1..Len(cs) |-> Embed(cs[p].content)]

\* An array or index that is None.
NoArray == [built |-> FALSE, rows |-> <<>>]

Array(rows) == [built |-> TRUE, rows |-> rows]

\* self.last_modified = None
NoMtime == 0

\* IndexFlatL2: squared Euclidean distance.
Dist(a, b) == (a - b) * (a - b)

\* The nearest row not yet taken: least distance, then least position.
Nearest(rows, qv, taken) ==
    CHOOSE p \in (1..Len(rows)) \ taken :
        \A o \in (1..Len(rows)) \ taken :
            \/ Dist(rows[p], qv) < Dist(rows[o], qv)
            \/ Dist(rows[p], qv) = Dist(rows[o], qv) /\ p <= o

\* index.search(query, k): k labels, nearest first, as 0-based positions;
\* when fewer than k vectors are indexed the missing labels are -1.
RECURSIVE SearchFrom(_, _, _, _)
SearchFrom(rows, qv, k, taken) ==
    IF k = 0 THEN <<>>
    ELSE IF taken = 1..Len(rows) THEN <<-1>> \o SearchFrom(rows, qv, k - 1, taken)
    ELSE LET p == Nearest(rows, qv, taken)
         IN <<p - 1>> \o SearchFrom(rows, qv, k - 1, taken \cup {p})

Search(idx, qv, k) == SearchFrom(idx.rows, qv, k, {})

----------------------------------------------------------------------------
(* The instance: chunks, embeddings, index, last_modified *)

Generation(cs, emb, idx, lm) ==
    [chunks |-> cs, embeddings |-> emb, index |-> idx, last_modified |-> lm]

\* A build that records the modification time whatever comes of it.
BuildIndexStamping(kb, doc, mtime, encodeFails) ==
    LET cs == LoadAndChunk(doc)
    IN IF cs = <<>>
       THEN [kb |-> [kb EXCEPT !.chunks = cs, !.last_modified = mtime],
             raised |-> FALSE]
       ELSE IF encodeFails
       THEN [kb |-> [kb EXCEPT !.chunks = cs, !.last_modified = mtime],
             raised |-> TRUE]
       ELSE [kb |-> Generation(cs, Array(EncodeChunks(cs)),
                               Array(EncodeChunks(cs)), mtime),
             raised |-> FALSE]

\* KnowledgeBase._build_index on the instance kb, the file holding doc with
\* modification time mtime. encodeFails: the embedding call raises.
BuildIndex(kb, doc, mtime, encodeFails) ==
    LET cs == LoadAndChunk(doc)
    IN IF cs = <<>>
       THEN [kb |-> [kb EXCEPT !.chunks = cs], raised |-> FALSE]
       ELSE IF encodeFails
       THEN [kb |-> [kb EXCEPT !.chunks = cs], raised |-> TRUE]
       ELSE [kb |-> Generation(cs, Array(EncodeChunks(cs)),
                               Array(EncodeChunks(cs)), mtime),
             raised |-> FALSE]

\* A freshness check that rebuilds whenever the file is there.
NeedsRebuildWhenPresent(kb, exists, mtime) == exists

\* A freshness check that does not look whether the file is there.
NeedsRebuildUnseen(kb, exists, mtime) ==
    kb.last_modified = NoMtime \/ mtime > kb.last_modified

\* The condition of _check_and_rebuild under which _build_index runs.
NeedsRebuild(kb, exists, mtime) ==
    exists /\ (kb.last_modified = NoMtime \/ mtime > kb.last_modified)

\* KnowledgeBase._check_and_rebuild
CheckAndRebuild(kb, exists, doc, mtime, encodeFails) ==
    IF NeedsRebuild(kb, exists, mtime)
    THEN LET b == BuildIndex(kb, doc, mtime, encodeFails)
         IN [kb |-> b.kb, raised |-> b.raised, rebuilt |-> TRUE]
    ELSE [kb |-> kb, raised |-> FALSE, rebuilt |-> FALSE]

----------------------------------------------------------------------------
(* Sentence re-ranking *)

\* len(s.strip()) > 20
MinSentenceLen == 20

\* max_sentences=3
MaxSentences == 3

\* chunk_text[:200]
FallbackLen == 200

\* text[:n]
RECURSIVE Take(_, _)
Take(text, n) ==
    IF text = <<>> \/ n = 0 THEN <<>>
    ELSE IF TokLen(Head(text)) <= n
    THEN <<Head(text)>> \o Take(Tail(text), n - TokLen(Head(text)))
    ELSE <<Part(Head(text), n)>>

\* re.split(r'[.!?]\s+', chunk_text): a piece ends at the full stop of a
\* sentence that whitespace follows; the full stop and the whitespace are the
\* delimiter. Each piece is [toks, cut]: its tokens, and whether its full stop
\* was taken by the delimiter.
RECURSIVE SplitSentences(_, _)
SplitSentences(text, cur) ==
    IF text = <<>> THEN <<[toks |-> cur, cut |-> FALSE]>>
    ELSE IF Head(text).k = "text" /\ Len(text) > 1 /\ IsSpace(text[2])
    THEN <<[toks |-> Append(cur, Head(text)), cut |-> TRUE]>>
         \o SplitSentences(LStrip(Tail(text)), <<>>)
    ELSE SplitSentences(Tail(text), Append(cur, Head(text)))

SentenceLen(s) == TextLen(Strip(s.toks)) - (IF s.cut THEN 1 ELSE 0)

\* A selection that keeps the first n positions whatever the similarities.
TopIndicesLeading(sims, n) == {p \in 1..Len(sims) : p <= n}

\* np.argsort(similarities)[-max_sentences:]: the positions of the n highest
\* similarities; of equal ones the later position sorts later.
TopIndices(sims, n) ==
    {p \in 1..Len(sims) :
        Cardinality({o \in 1..Len(sims) :
            sims[o] > sims[p] \/ (sims[o] = sims[p] /\ o > p)}) < n}

\* '. '.join(selected) + '.' over the sentences at the positions in keep,
\* in positional order.
RECURSIVE JoinSelected(_, _, _)
JoinSelected(sents, keep, p) ==
    IF p > Len(sents) THEN <<>>
    ELSE IF p \notin keep THEN JoinSelected(sents, keep, p + 1)
    ELSE LET last == \A o \in keep : o <= p
         IN Strip(sents[p].toks)
            \o (IF sents[p].cut THEN <<>> ELSE <<Stop>>)
            \o (IF last THEN <<>> ELSE <<Sp>>)
            \o JoinSelected(sents, keep, p + 1)

\* KnowledgeBase._extract_relevant_sentences. encodeFails: the embedding call
\* raises. [text, raised, encoded]: the text returned, whether the call raised,
\* whether the Embedder was called.
ExtractRelevantSentences(chunk_text, query, encodeFails) ==
    LET sents == SelectSeq(SplitSentences(chunk_text, <<>>),
                           LAMBDA s : SentenceLen(s) > MinSentenceLen)
        sims  == [p \in 1..Len(sents) |-> Embed(sents[p].toks) * query.id]
    IN IF sents = <<>>
       THEN [text |-> Take(chunk_text, FallbackLen), raised |-> FALSE, encoded |-> FALSE]
       ELSE IF Len(sents) <= MaxSentences
       THEN [text |-> chunk_text, raised |-> FALSE, encoded |-> FALSE]
       ELSE IF encodeFails
       THEN [text |-> <<>>, raised |-> TRUE, encoded |-> TRUE]
       ELSE [text |-> JoinSelected(sents, TopIndices(sims, MaxSentences), 1),
             raised |-> FALSE, encoded |-> TRUE]

----------------------------------------------------------------------------
(* Formatter *)

\* The sections of the guidelines in first-seen order.
RECURSIVE SectionsSeen(_, _)
SectionsSeen(guidelines, seen) ==
    IF guidelines = <<>> THEN seen
    ELSE SectionsSeen(Tail(guidelines),
             IF \E p \in 1..Len(seen) : seen[p] = Head(guidelines).section
             THEN seen ELSE Append(seen, Head(guidelines).section))

\* The orders in which a set of section names can be iterated.
Orders(S) ==
    {o \in [1..Cardinality(S) -> S] : \A x \in S : \E p \in DOMAIN o : o[p] = x}

\* A loop that writes the contents without any section header.
FormatEntriesBare(guidelines, seen) ==
    [p \in 1..Len(guidelines) |-> [k |-> "content", text |-> guidelines[p].content]]

\* The body of the loop over the guidelines: a header for a new section, then
\* the content.
RECURSIVE FormatEntries(_, _)
FormatEntries(guidelines, seen) ==
    IF guidelines = <<>> THEN <<>>
    ELSE LET g == Head(guidelines)
         IN (IF g.section \in seen THEN <<>>
             ELSE <<[k |-> "open", tag |-> g.section]>>)
            \o <<[k |-> "content", text |-> g.content]>>
            \o FormatEntries(Tail(guidelines), seen \cup {g.section})

\* KnowledgeBase._format_as_xml: the parts joined by newlines. closeOrder is
\* the order in which the set sections_seen is iterated.
FormatAsXml(guidelines, closeOrder) ==
    IF guidelines = <<>> THEN <<>>
    ELSE <<[k |-> "outer_open"]>>
         \o FormatEntries(guidelines, {})
         \o [p \in 1..Len(closeOrder) |-> [k |-> "close", tag |-> closeOrder[p]]]
         \o <<[k |-> "outer_close"]>>

----------------------------------------------------------------------------
(* Retrieval *)

\* top_k: Optional[int] = None
NoTopK == 0

\* The retrieval count of get_relevant_guidelines: top_k, or the adaptive count.
RetrievalCount(top_k, words, mn, mx) ==
    IF top_k = NoTopK THEN AdaptiveRetrievalCount(words, mn, mx) ELSE top_k

\* A guard that looks at the chunk list only.
NothingIndexedChunksOnly(kb) == kb.chunks = <<>>

\* The guard of get_relevant_guidelines: if not self.index or not self.chunks
NothingIndexed(kb) == ~kb.index.built \/ kb.chunks = <<>>

\* self.chunks[idx] for a label idx < len(chunks): a negative label counts
\* from the end of the list.
ChunkAt(cs, idx) == IF idx >= 0 THEN cs[idx + 1] ELSE cs[Len(cs) + idx + 1]

\* A loop that answers an embedding failure with the unranked chunk text.
BuildGuidelinesFallback(retrieved, query, encodeFails) ==
    [guidelines |-> [p \in 1..Len(retrieved) |->
                        [section |-> retrieved[p].section,
                         content |-> retrieved[p].content,
                         type |-> retrieved[p].type]],
     raised |-> FALSE]

\* The loop over retrieved_chunks: one entry per chunk whose extracted text is
\* not empty; the first embedding failure ends it. [guidelines, raised].
BuildGuidelines(retrieved, query, encodeFails) ==
    LET xs == [p \in 1..Len(retrieved) |->
                  ExtractRelevantSentences(retrieved[p].content, query, encodeFails)]
        es == [p \in 1..Len(retrieved) |->
                  [section |-> retrieved[p].section, content |-> xs[p].text,
                   type |-> retrieved[p].type]]
    IN IF \E p \in 1..Len(retrieved) : xs[p].raised
       THEN [guidelines |-> <<>>, raised |-> TRUE]
       ELSE [guidelines |-> SelectSeq(es, LAMBDA g : g.content # <<>>),
             raised |-> FALSE]

\* What a call that has not got anywhere yet has done.
NoOutcome ==
    [op |-> "none", words |-> 0, top_k |-> NoTopK,
     rebuilt |-> FALSE, raised |-> "none", k |-> 0,
     labels |-> <<>>, guidelines |-> <<>>, order |-> <<>>,
     query_embeds |-> 0, formatter_calls |-> 0, adaptive_calls |-> 0,
     stats |-> [chunks_indexed |-> 0, style_guide_exists |-> FALSE,
                last_modified |-> NoMtime, min_guidelines |-> 0,
                max_guidelines |-> 0]]

\* The section names among the guidelines: the set sections_seen.
SectionSet(guidelines) == {guidelines[p].section : p \in 1..Len(guidelines)}

\* get_relevant_guidelines after the emptiness check, up to the Formatter's
\* input. fail names the embedding call that raises.
Retrieve(kb, base, mn, mx, query, top_k, fail) ==
    LET k      == RetrievalCount(top_k, query.words, mn, mx)
        counted == [base EXCEPT !.k = k,
                                !.adaptive_calls = IF top_k = NoTopK THEN 1 ELSE 0,
                                !.query_embeds = 1]
        labels == Search(kb.index, query.id, k)
        found  == [counted EXCEPT !.labels = labels]
        got    == [p \in 1..Len(labels) |-> ChunkAt(kb.chunks, labels[p])]
        b      == BuildGuidelines(got, query, fail = "sentences")
    IN IF fail = "query" THEN [counted EXCEPT !.raised = "encode_query"]
       ELSE IF \E p \in 1..Len(labels) : labels[p] >= Len(kb.chunks)
       THEN [found EXCEPT !.raised = "index_error"]
       ELSE IF b.raised
       THEN [found EXCEPT !.raised = "encode_sentences"]
       ELSE [found EXCEPT !.guidelines = b.guidelines, !.formatter_calls = 1]

\* KnowledgeBase.get_relevant_guidelines up to the Formatter's input: [kb, out],
\* the instance after the call and what the call did.
GetRelevantGuidelines(kb, exists, doc, mtime, mn, mx, query, top_k, fail) ==
    LET cr   == CheckAndRebuild(kb, exists, doc, mtime, fail = "chunks")
        base == [NoOutcome EXCEPT !.op = "get", !.words = query.words,
                                  !.top_k = top_k, !.rebuilt = cr.rebuilt]
    IN [kb  |-> cr.kb,
        out |-> IF cr.raised THEN [base EXCEPT !.raised = "encode_chunks"]
                ELSE IF NothingIndexed(cr.kb) THEN base
                ELSE Retrieve(cr.kb, base, mn, mx, query, top_k, fail)]

\* The string a call returns: self._format_as_xml(guidelines) when it got that
\* far, iterating sections_seen in the order out.order; "" from the emptiness
\* check. (A call that raised returns nothing: see out.raised.)
Result(out) ==
    IF out.formatter_calls = 1 THEN FormatAsXml(out.guidelines, out.order) ELSE <<>>

\* KnowledgeBase.get_stats
GetStatsOf(kb, exists, mn, mx) ==
    [chunks_indexed |-> IF kb.chunks # <<>> THEN Len(kb.chunks) ELSE 0,
     style_guide_exists |-> exists,
     last_modified |-> kb.last_modified,
     min_guidelines |-> mn,
     max_guidelines |-> mx]

----------------------------------------------------------------------------
(* The instance and its file: state machine *)

KB == Generation(chunks, embeddings, index, last_modified)

\* The instance before __init__ looks at the file.
NewKB == Generation(<<>>, NoArray, NoArray, NoMtime)

\* (min_guidelines, max_guidelines) of the instances: the defaults and a
\* small setting.
Configs == {<<5, 15>>, <<1, 3>>}

\* The query texts: [words, id], the word count and the wording.
Queries == {[words |-> 50, id |-> 2], [words |-> 300, id |-> 7]}

\* The embedding call a get_relevant_guidelines call may see raise.
Failures == {"none", "chunks", "query", "sentences"}

\* The chunker harness when idle.
CkIdle == [doc |-> <<>>, runs |-> 0, first |-> <<>>, second |-> <<>>]

\* The formatter harness when idle.
FmIdle == [guidelines |-> <<>>, called |-> FALSE, out |-> <<>>,
           again |-> FALSE, out2 |-> <<>>]

\* What a call has read of the instance: the rows of the index it searched and
\* the chunk list it took the results from.
NoObs == [seen |-> FALSE, rows |-> <<>>, chunks |-> <<>>]

\* No interleaved calls.
CcIdle == [on |-> FALSE, locked |-> FALSE, pc |-> <<"idle", "idle">>,
           obs |-> <<NoObs, NoObs>>]

\* The sentence harness when idle.
SxIdle == [retrieved |-> <<>>, query |-> 0, called |-> FALSE, texts |-> <<>>,
           guidelines |-> <<>>]

\* No final_result has been built.
NoResult == [built |-> FALSE, final_corrected_text |-> 0, total_iterations |-> 0,
             final_quality_score |-> 0]

\* The agent harness when idle. pc is "loop" inside analyze_with_iterations,
\* "returned" or "raised" after it; rounds records, per call of
\* verify_quality, what the round was given and what the call returned.
AgIdle == [on |-> FALSE, max_iterations |-> 0, has_client |-> FALSE,
           pc |-> "idle", iteration_count |-> 0, is_done |-> FALSE,
           current_text |-> 0, iterations |-> <<>>, rounds |-> <<>>,
           error |-> "none", result |-> NoResult]

\* The save harness when idle: the analysis results to save, the overwrite
\* flag, and per saved result the input path, the path written and the path
\* reported.
SvIdle == [results |-> <<>>, overwrite |-> FALSE, called |-> FALSE,
           inputs |-> <<>>, written |-> <<>>, saved_paths |-> <<>>]

\* The adaptive-count harness when idle.
AdIdle == [mn |-> 0, mx |-> 0, words |-> 0, top_k |-> NoTopK, count |-> 0,
           consulted |-> FALSE, called |-> FALSE]

\* KnowledgeBase.__init__ returned: the file is absent, or was indexed.
Init ==
    /\ \E c \in Configs : min_guidelines = c[1] /\ max_guidelines = c[2]
    /\ \/ /\ fs_exists = FALSE /\ fs_mtime = 0 /\ fs_doc = DocEmpty
          /\ chunks = <<>> /\ embeddings = NoArray /\ index = NoArray
          /\ last_modified = NoMtime /\ born_absent = TRUE
       \/ \E d \in Docs :
            LET b == BuildIndex(NewKB, d, 1, FALSE)
            IN /\ fs_exists = TRUE /\ fs_mtime = 1 /\ fs_doc = d
               /\ chunks = b.kb.chunks /\ embeddings = b.kb.embeddings
               /\ index = b.kb.index /\ last_modified = b.kb.last_modified
               /\ born_absent = FALSE
    /\ call = NoOutcome
    /\ ad = AdIdle /\ ck = CkIdle /\ fm = FmIdle /\ cc = CcIdle
    /\ sx = SxIdle /\ ag = AgIdle /\ sv = SvIdle

\* The style guide is edited: new content, later modification time.
EditSource(d) ==
    /\ fs_exists /\ fs_mtime < MaxMtime
    /\ fs_doc' = d /\ fs_mtime' = fs_mtime + 1
    /\ UNCHANGED <<fs_exists, min_guidelines, max_guidelines, chunks, embeddings,
                   index, last_modified, born_absent, ad, ck, fm, cc, sx, ag, sv>>
    /\ call' = NoOutcome

\* The style guide is deleted.
DeleteSource ==
    /\ fs_exists
    /\ fs_exists' = FALSE /\ fs_doc' = DocEmpty
    /\ UNCHANGED <<fs_mtime, min_guidelines, max_guidelines, chunks, embeddings,
                   index, last_modified, born_absent, ad, ck, fm, cc, sx, ag, sv>>
    /\ call' = NoOutcome

\* The style guide is created.
CreateSource(d) ==
    /\ ~fs_exists /\ fs_mtime < MaxMtime
    /\ fs_exists' = TRUE /\ fs_doc' = d /\ fs_mtime' = fs_mtime + 1
    /\ UNCHANGED <<min_guidelines, max_guidelines, chunks, embeddings,
                   index, last_modified, born_absent, ad, ck, fm, cc, sx, ag, sv>>
    /\ call' = NoOutcome

\* A call of get_relevant_guidelines(text, top_k), run to completion.
Get(query, top_k, fail) ==
    LET r == GetRelevantGuidelines(KB, fs_exists, fs_doc, fs_mtime, min_guidelines,
                                   max_guidelines, query, top_k, fail)
    IN /\ chunks' = r.kb.chunks
       /\ embeddings' = r.kb.embeddings
       /\ index' = r.kb.index
       /\ last_modified' = r.kb.last_modified
       /\ \E o \in Orders(SectionSet(r.out.guidelines)) :
              call' = [r.out EXCEPT !.order = o]
       /\ UNCHANGED <<fs_exists, fs_mtime, fs_doc, min_guidelines, max_guidelines,
                      born_absent, ad, ck, fm, cc, sx, ag, sv>>

\* A call of get_stats().
GetStats ==
    /\ call' = [NoOutcome EXCEPT
                   !.op = "stats",
                   !.stats = GetStatsOf(KB, fs_exists, min_guidelines, max_guidelines)]
    /\ UNCHANGED <<fs_exists, fs_mtime, fs_doc, min_guidelines, max_guidelines,
                   chunks, embeddings, index, last_modified, born_absent, ad, ck, fm, cc, sx, ag, sv>>

Next ==
    \/ \E d \in Docs : EditSource(d)
    \/ DeleteSource
    \/ \E d \in Docs : CreateSource(d)
    \/ \E q \in Queries, k \in {NoTopK} \cup 1..MaxTopK, f \in Failures : Get(q, k, f)
    \/ GetStats

Spec == Init /\ [][Next]_vars

----------------------------------------------------------------------------
(* The retrieval count as a function of its inputs *)

AdInit ==
    /\ fs_exists = FALSE /\ fs_mtime = 0 /\ fs_doc = DocEmpty
    /\ min_guidelines = 0 /\ max_guidelines = 0
    /\ chunks = <<>> /\ embeddings = NoArray /\ index = NoArray
    /\ last_modified = NoMtime /\ born_absent = TRUE /\ call = NoOutcome
    /\ \E mn \in 1..MaxMin, d \in 0..MaxSpread :
           ad = [AdIdle EXCEPT !.mn = mn, !.mx = mn + d]
    /\ ck = CkIdle /\ fm = FmIdle /\ cc = CcIdle
    /\ sx = SxIdle /\ ag = AgIdle /\ sv = SvIdle

\* The count get_relevant_guidelines searches with, for a text of w words.
AdCount(w, top_k) ==
    /\ ~ad.called
    /\ ad' = [ad EXCEPT !.words = w, !.top_k = top_k,
                        !.count = RetrievalCount(top_k, w, ad.mn, ad.mx),
                        !.consulted = (top_k = NoTopK),
                        !.called = TRUE]
    /\ UNCHANGED <<kbvars, others>>

AdNext == \E w \in 0..MaxWords, k \in {NoTopK} \cup 1..MaxTopK : AdCount(w, k)

SpecAdaptive == AdInit /\ [][AdNext]_vars

----------------------------------------------------------------------------
(* Properties of the instance *)

\* Number of rows of an array or index; None has none.
Rows(a) == Len(a.rows)

\* C1: in every reachable state the embedding matrix and the index hold as
\* many rows as there are chunks.
C1_RowsMatchChunks ==
    Rows(embeddings) = Len(chunks) /\ Rows(index) = Len(chunks)

\* C2: a get_relevant_guidelines call whose rebuild fails in the embedding call
\* leaves chunks, embeddings, index and last_modified as they were.
C2_FailedRebuildKeepsGeneration ==
    [][(call'.op = "get" /\ call'.raised = "encode_chunks")
          => UNCHANGED <<chunks, embeddings, index, last_modified>>]_vars

\* C3: an embedding failure during the rebuild inside get_relevant_guidelines
\* does not reach the caller: the call returns a result.
C3_RebuildFailureNotRaised ==
    call.op = "get" => call.raised # "encode_chunks"

\* C4: a get_relevant_guidelines call that starts with the source present and
\* newer than last_modified (or last_modified unset) and returns has rebuilt:
\* the chunks are those of the current source and last_modified is the
\* source's modification time.
C4_StaleSourceRebuilt ==
    [][(/\ call'.op = "get" /\ call'.raised = "none"
        /\ fs_exists
        /\ (last_modified = NoMtime \/ fs_mtime > last_modified))
          => /\ call'.rebuilt
             /\ chunks' = LoadAndChunk(fs_doc)
             /\ last_modified' = fs_mtime]_vars

\* C5: an instance constructed with the source absent answers every
\* get_relevant_guidelines call with the empty string as long as no rebuild has
\* succeeded.
C5_EmptyUntilRebuilt ==
    (born_absent /\ ~index.built /\ call.op = "get")
        => call.raised = "none" /\ Result(call) = <<>>

\* C6: a get_relevant_guidelines call that finds the index unbuilt or empty at
\* its emptiness check returns the empty string without calling the Embedder
\* for the query or the Formatter.
C6_UnbuiltIndexReturnsEmpty ==
    (call.op = "get" /\ call.raised # "encode_chunks"
        /\ (~index.built \/ Rows(index) = 0))
        => /\ call.raised = "none"
           /\ Result(call) = <<>>
           /\ call.query_embeds = 0
           /\ call.formatter_calls = 0

\* C6 witness: a call met an unbuilt index while chunks were loaded.
C6_Witness ==
    call.op = "get" /\ call.raised = "none" /\ ~index.built /\ chunks # <<>>

\* C7: after a rebuild of a source that yields zero chunks the instance holds
\* no chunks, no embedding matrix and no index, the call returned the empty
\* string and get_stats counts 0 chunks.
C7_ZeroChunksEmptyGeneration ==
    (call.op = "get" /\ call.rebuilt /\ LoadAndChunk(fs_doc) = <<>>)
        => /\ chunks = <<>> /\ ~embeddings.built /\ ~index.built
           /\ call.raised = "none" /\ Result(call) = <<>>
           /\ GetStatsOf(KB, fs_exists, min_guidelines, max_guidelines).chunks_indexed = 0

\* The chunk positions a call looked up, from its search labels.
Looked(out, cs) ==
    [p \in 1..Len(out.labels) |->
        IF out.labels[p] >= 0 THEN out.labels[p] ELSE Len(cs) + out.labels[p]]

\* C8: a retrieval with count k over n >= 1 indexed chunks retrieves min(k, n)
\* chunks, none of them twice.
C8_RetrievesMinOfKAndN ==
    (call.op = "get" /\ call.raised = "none" /\ call.labels # <<>>)
        => /\ Len(call.labels) = (IF call.k <= Rows(index) THEN call.k ELSE Rows(index))
           /\ \A p, o \in 1..Len(call.labels) :
                  p # o => Looked(call, chunks)[p] # Looked(call, chunks)[o]

----------------------------------------------------------------------------
(* Properties of the retrieval count *)

\* C9 as stated: with max_guidelines > min_guidelines the adaptive count is
\* min_guidelines at 50 words, max_guidelines at 600 words and strictly between
\* the two at 300 words.
C9_StrictlyBetweenAt300 ==
    (ad.called /\ ad.top_k = NoTopK /\ ad.mx > ad.mn)
        => /\ ad.words = 50  => ad.count = ad.mn
           /\ ad.words = 600 => ad.count = ad.mx
           /\ ad.words = 300 => (ad.mn < ad.count /\ ad.count < ad.mx)

\* C9 amended: with max_guidelines > min_guidelines the adaptive count is
\* min_guidelines at 50 words and max_guidelines at 600 words; at 300 words it
\* is strictly between the two when max_guidelines >= min_guidelines + 2, and
\* min_guidelines when max_guidelines = min_guidelines + 1.
C9_AdaptiveEndpoints ==
    (ad.called /\ ad.top_k = NoTopK /\ ad.mx > ad.mn)
        => /\ ad.words = 50  => ad.count = ad.mn
           /\ ad.words = 600 => ad.count = ad.mx
           /\ (ad.words = 300 /\ ad.mx >= ad.mn + 2)
                  => (ad.mn < ad.count /\ ad.count < ad.mx)
           /\ (ad.words = 300 /\ ad.mx = ad.mn + 1) => ad.count = ad.mn

\* C9 witness: the count of a 300-word text lay strictly between the bounds.
C9_Witness ==
    /\ ad.called /\ ad.top_k = NoTopK /\ ad.words = 300
    /\ ad.mn < ad.count /\ ad.count < ad.mx

\* C10: without top_k the count is min_guidelines below 100 words,
\* max_guidelines above 500 words and min_guidelines + floor(((w - 100) / 400)
\* * (max_guidelines - min_guidelines)) in between; a given top_k is used
\* unchanged, without consulting the adaptive function.
C10_PiecewiseFloor ==
    ad.called =>
        IF ad.top_k # NoTopK THEN ad.count = ad.top_k /\ ~ad.consulted
        ELSE /\ ad.consulted
             /\ ad.words < 100 => ad.count = ad.mn
             /\ ad.words > 500 => ad.count = ad.mx
             /\ (100 <= ad.words /\ ad.words <= 500)
                    => ad.count = ad.mn + ((ad.words - 100) * (ad.mx - ad.mn)) \div 400

----------------------------------------------------------------------------
(* Properties of the freshness check and of failures in a live call *)

\* C11: a get_relevant_guidelines call made while the source is present with a
\* modification time not greater than the recorded last_modified does not
\* rebuild and leaves chunks, embeddings, index and last_modified unchanged;
\* get_stats, and every step that is not a get_relevant_guidelines call,
\* leaves them unchanged too.
C11_GenerationFrame ==
    [][/\ (/\ call'.op = "get" /\ fs_exists
           /\ last_modified # NoMtime /\ fs_mtime <= last_modified)
              => (/\ ~call'.rebuilt
                  /\ UNCHANGED <<chunks, embeddings, index, last_modified>>)
       /\ call'.op # "get"
              => UNCHANGED <<chunks, embeddings, index, last_modified>>]_vars

\* C11 witness: a call answered from an up-to-date generation, without a rebuild.
C11_Witness ==
    /\ call.op = "get" /\ ~call.rebuilt /\ call.raised = "none"
    /\ fs_exists /\ last_modified # NoMtime /\ fs_mtime <= last_modified
    /\ call.guidelines # <<>>

\* C12: a get_relevant_guidelines call made while the source is missing
\* attempts no rebuild and gets no error from the freshness check; chunks,
\* embeddings, index and last_modified are unchanged, the entries it returns
\* come from the loaded chunks, and with nothing loaded it returns the empty
\* string.
C12_MissingSourceSkipped ==
    [][(call'.op = "get" /\ ~fs_exists)
          => /\ ~call'.rebuilt /\ call'.raised # "encode_chunks"
             /\ UNCHANGED <<chunks, embeddings, index, last_modified>>
             /\ \A p \in 1..Len(call'.guidelines) :
                    \E c \in 1..Len(chunks) :
                        chunks[c].section = call'.guidelines[p].section
             /\ NothingIndexed(KB)
                    => (call'.raised = "none" /\ Result(call') = <<>>)]_vars

\* C12 witness: a call answered from the loaded generation after the source
\* was deleted.
C12_Witness ==
    /\ call.op = "get" /\ ~fs_exists /\ call.raised = "none"
    /\ call.guidelines # <<>>

\* Whether a call that retrieved the chunks at labels embeds sentences: some
\* retrieved chunk has more than max_sentences sentences worth ranking.
EmbedsSentences(cs, labels, query) ==
    \E p \in 1..Len(labels) :
        ExtractRelevantSentences(ChunkAt(cs, labels[p]).content, query, FALSE).encoded

\* C13: in every reachable state, a get_relevant_guidelines call that needs no
\* rebuild and in which the Embedder fails on the query, or on the sentences of
\* a retrieved chunk, raises that failure to the caller, returns no string,
\* and leaves chunks, embeddings, index and last_modified as they are.
C13_LiveFailureRaised ==
    \A q \in Queries, k \in {NoTopK} \cup 1..MaxTopK :
        LET ok == GetRelevantGuidelines(KB, fs_exists, fs_doc, fs_mtime,
                      min_guidelines, max_guidelines, q, k, "none")
            fq == GetRelevantGuidelines(KB, fs_exists, fs_doc, fs_mtime,
                      min_guidelines, max_guidelines, q, k, "query")
            fs == GetRelevantGuidelines(KB, fs_exists, fs_doc, fs_mtime,
                      min_guidelines, max_guidelines, q, k, "sentences")
        IN /\ (~ok.out.rebuilt /\ ok.out.query_embeds = 1)
                  => /\ fq.out.raised = "encode_query"
                     /\ fq.out.formatter_calls = 0 /\ Result(fq.out) = <<>>
                     /\ fq.kb = KB
           /\ (/\ ~ok.out.rebuilt /\ ok.out.raised = "none"
               /\ ok.out.labels # <<>>
               /\ EmbedsSentences(chunks, ok.out.labels, q))
                  => /\ fs.out.raised = "encode_sentences"
                     /\ fs.out.formatter_calls = 0 /\ Result(fs.out) = <<>>
                     /\ fs.kb = KB

\* C13 witness: a call without a rebuild raised the failure of the sentence
\* embedding.
C13_Witness ==
    call.op = "get" /\ ~call.rebuilt /\ call.raised = "encode_sentences"

----------------------------------------------------------------------------
(* The chunker as a function of the document text *)

\* A document has at most MaxRegions tagged regions.
MaxRegions == 3

\* A sentence that starts with '#'.
Heading(i, n) == [Text(i, n) EXCEPT !.lead = "hash"]

\* <tag>body</tag>
Region(tag, body) == <<Open(tag)>> \o body \o <<Close(tag)>>

\* The tagged regions documents are made of: a short text; one long
\* paragraph under the same tag; two bullets and a paragraph; a heading and a
\* paragraph; the same paragraph twice.
CkRegions ==
    { Region("a", <<Text(2, 30)>>),
      Region("a", <<Text(3, 60)>>),
      Region("b", <<Bullet, Text(4, 30), Nl, Bullet, Text(5, 10), Blank, Text(6, 60)>>),
      Region("c", <<Heading(7, 60), Blank, Text(8, 55)>>),
      Region("d", <<Text(9, 60), Blank, Text(9, 60)>>) }

\* Regions one after the other, a newline after each.
RECURSIVE Concat(_)
Concat(rs) == IF rs = <<>> THEN <<>> ELSE Head(rs) \o <<Nl>> \o Concat(Tail(rs))

\* The documents chunked: text without tags, and up to MaxRegions regions.
CkDocs ==
    {DocNoTags} \cup
    UNION {{Concat(rs) : rs \in [1..n -> CkRegions]} : n \in 0..MaxRegions}

\* The matches of re.findall(r'<(\w+)>(.*?)</\1>', content, re.DOTALL), left
\* to right: the tagged regions of the document, [tag, body].
RECURSIVE FindAllFrom(_, _)
FindAllFrom(doc, i) ==
    IF i > Len(doc) THEN <<>>
    ELSE IF doc[i].k = "open" /\ FirstClose(doc, i, doc[i].tag) # 0
    THEN LET j == FirstClose(doc, i, doc[i].tag)
         IN <<[tag |-> doc[i].tag, body |-> SubSeq(doc, i + 1, j - 1)]>>
            \o FindAllFrom(doc, j + 1)
    ELSE FindAllFrom(doc, i + 1)

FindAll(doc) == FindAllFrom(doc, 1)

\* A second chunking that adds to the chunks of the first.
RechunkExtending(prev, doc) == prev \o LoadAndChunk(doc)

\* self.chunks = self._load_and_chunk() on an instance holding the chunks
\* prev: the list is made anew (chunks = []).
Rechunk(prev, doc) == LoadAndChunk(doc)

\* The instance plays no part.
InstanceUnused ==
    /\ fs_exists = FALSE /\ fs_mtime = 0 /\ fs_doc = DocEmpty
    /\ min_guidelines = 0 /\ max_guidelines = 0
    /\ chunks = <<>> /\ embeddings = NoArray /\ index = NoArray
    /\ last_modified = NoMtime /\ born_absent = TRUE /\ call = NoOutcome

CkInit ==
    /\ InstanceUnused
    /\ ad = AdIdle /\ fm = FmIdle /\ cc = CcIdle
    /\ sx = SxIdle /\ ag = AgIdle /\ sv = SvIdle
    /\ \E d \in CkDocs : ck = [CkIdle EXCEPT !.doc = d]

\* The document is chunked.
ChunkDoc ==
    /\ ck.runs = 0
    /\ ck' = [ck EXCEPT !.runs = 1, !.first = LoadAndChunk(ck.doc)]
    /\ UNCHANGED <<kbvars, ad, fm, cc, sx, ag, sv>>

\* The same document is chunked again.
ChunkAgain ==
    /\ ck.runs = 1
    /\ ck' = [ck EXCEPT !.runs = 2, !.second = Rechunk(ck.first, ck.doc)]
    /\ UNCHANGED <<kbvars, ad, fm, cc, sx, ag, sv>>

CkNext == ChunkDoc \/ ChunkAgain

SpecChunker == CkInit /\ [][CkNext]_vars

\* The chunks of one kind.
OfType(cs, type) == SelectSeq(cs, LAMBDA c : c.type = type)

\* Whether the text a occurs in the text b.
IsInfix(a, b) ==
    \E i \in 0..(Len(b) - Len(a)) : SubSeq(b, i + 1, i + Len(a)) = a

\* C15: chunking a document of N tagged regions yields exactly one Section
\* chunk per region, and at least N chunks; the Section chunk of a region has
\* the region's tag and its trimmed inner text as content and original.
C15_OneSectionChunkPerRegion ==
    ck.runs >= 1 =>
        LET regs == FindAll(ck.doc)
            secs == OfType(ck.first, "section")
        IN /\ Len(secs) = Len(regs)
           /\ Len(ck.first) >= Len(regs)
           /\ \A r \in 1..Len(regs) : \E p \in 1..Len(secs) :
                  /\ secs[p].section = regs[r].tag
                  /\ secs[p].content = Strip(regs[r].body)
                  /\ secs[p].original = Strip(regs[r].body)

\* C16: every chunk carries the tag of a tagged region of the document and its
\* content is text from inside a region with that tag; a document without
\* tagged regions yields no chunks.
C16_ChunksComeFromRegions ==
    ck.runs >= 1 =>
        LET regs == FindAll(ck.doc)
        IN /\ \A p \in 1..Len(ck.first) : \E r \in 1..Len(regs) :
                  /\ ck.first[p].section = regs[r].tag
                  /\ IsInfix(ck.first[p].content, regs[r].body)
           /\ regs = <<>> => ck.first = <<>>

\* C16 witness: a chunking that produced a bullet chunk and a paragraph chunk.
C16_Witness ==
    /\ ck.runs >= 1
    /\ OfType(ck.first, "sub-item") # <<>> /\ OfType(ck.first, "paragraph") # <<>>

RECURSIVE InRegionOrder(_, _)
InRegionOrder(secs, regs) ==
    IF secs = <<>> THEN TRUE
    ELSE IF regs = <<>> THEN FALSE
    ELSE IF /\ Head(secs).section = Head(regs).tag
            /\ Head(secs).content = Strip(Head(regs).body)
    THEN InRegionOrder(Tail(secs), Tail(regs))
    ELSE InRegionOrder(secs, Tail(regs))

\* C18: the Section chunks follow the order in which their regions close in
\* the text; every other chunk belongs to the section of the chunk before it,
\* and within a section the Section chunk comes first, then the bullet
\* chunks, then the paragraph chunks.
C18_SectionOrder ==
    ck.runs >= 1 =>
        LET cs == ck.first
        IN /\ InRegionOrder(OfType(cs, "section"), FindAll(ck.doc))
           /\ cs # <<>> => cs[1].type = "section"
           /\ \A p \in 2..Len(cs) :
                  /\ cs[p].type # "section" => cs[p].section = cs[p - 1].section
                  /\ cs[p].type = "sub-item"
                         => cs[p - 1].type \in {"section", "sub-item"}

\* C19: a Paragraph chunk is longer than 50 characters, does not start with
\* '#' or a code fence, and repeats the content of no earlier chunk of its
\* section, the Section chunk included.
C19_ParagraphNotDuplicate ==
    ck.runs >= 1 =>
        \A p \in 1..Len(ck.first) :
            ck.first[p].type = "paragraph"
                => /\ TextLen(ck.first[p].content) > 50
                   /\ ~StartsWithLead(ck.first[p].content, "hash")
                   /\ ~StartsWithLead(ck.first[p].content, "fence")
                   /\ \A o \in 1..(p - 1) :
                          ck.first[o].section = ck.first[p].section
                              => ck.first[o].content # ck.first[p].content

----------------------------------------------------------------------------
(* The formatter as a function of the list of entries *)

\* A list has at most MaxEntries entries.
MaxEntries == 4

\* The sections the entries name.
FmSections == {"a", "b", "c"}

\* The lists formatted: entry p has the wording p.
FmInputs ==
    UNION {{[p \in 1..n |-> [section |-> ss[p], content |-> <<Text(p, 30)>>,
                             type |-> "section"]] :
               ss \in [1..n -> FmSections]} : n \in 0..MaxEntries}

FmInit ==
    /\ InstanceUnused
    /\ ad = AdIdle /\ ck = CkIdle /\ cc = CcIdle
    /\ sx = SxIdle /\ ag = AgIdle /\ sv = SvIdle
    /\ \E g \in FmInputs : fm = [FmIdle EXCEPT !.guidelines = g]

\* self._format_as_xml(guidelines), the set sections_seen iterated in some order.
Format ==
    /\ ~fm.called
    /\ \E o \in Orders(SectionSet(fm.guidelines)) :
           fm' = [fm EXCEPT !.called = TRUE, !.out = FormatAsXml(fm.guidelines, o)]
    /\ UNCHANGED <<kbvars, ad, ck, cc, sx, ag, sv>>

\* The same list is formatted once more, in another run of the program: the
\* set sections_seen is again iterated in some order.
FormatAgain ==
    /\ fm.called /\ ~fm.again
    /\ \E o \in Orders(SectionSet(fm.guidelines)) :
           fm' = [fm EXCEPT !.again = TRUE, !.out2 = FormatAsXml(fm.guidelines, o)]
    /\ UNCHANGED <<kbvars, ad, ck, cc, sx, ag, sv>>

FmNext == Format \/ FormatAgain

SpecFormatter == FmInit /\ [][FmNext]_vars

\* The positions of the parts of out that equal part.
PartPos(out, part) == {i \in 1..Len(out) : out[i] = part}

\* The entry a content part at position i of out renders: contents appear in
\* the order of the entries.
EntryAt(out, i) == Cardinality({j \in 1..i : out[j].k = "content"})

\* The position in out of the content of entry p.
ContentPos(out, p) ==
    CHOOSE i \in 1..Len(out) : out[i].k = "content" /\ EntryAt(out, i) = p

\* C20: the formatted block has one opening and one closing tag per section,
\* and the contents of the entries of a section follow its opening tag with no
\* opening tag or content of another section before or between them.
C20_GroupedBySection ==
    fm.called =>
        \A s \in SectionSet(fm.guidelines) :
            LET g     == fm.guidelines
                mine  == {p \in 1..Len(g) : g[p].section = s}
                opens == PartPos(fm.out, [k |-> "open", tag |-> s])
                last  == CHOOSE p \in mine : \A o \in mine : o <= p
            IN /\ Cardinality(opens) = 1
               /\ Cardinality(PartPos(fm.out, [k |-> "close", tag |-> s])) = 1
               /\ \A i \in 1..ContentPos(fm.out, last) :
                      (\E o \in opens : o < i)
                          => /\ fm.out[i].k # "open"
                             /\ fm.out[i].k = "content"
                                    => g[EntryAt(fm.out, i)].section = s

----------------------------------------------------------------------------
(* Two get_relevant_guidelines calls on one instance, statement by statement *)

\* The two calls.
Callers == {1, 2}

\* The instance was built from one style guide, which has since been edited;
\* the host either serializes the calls (locked) or does not.
CcInit ==
    /\ min_guidelines = 5 /\ max_guidelines = 15
    /\ fs_exists = TRUE /\ fs_mtime = 2
    /\ \E d \in Docs : fs_doc = d
    /\ \E d \in Docs :
           LET b == BuildIndex(NewKB, d, 1, FALSE)
           IN /\ b.kb.chunks # <<>>
              /\ chunks = b.kb.chunks /\ embeddings = b.kb.embeddings
              /\ index = b.kb.index /\ last_modified = b.kb.last_modified
    /\ born_absent = FALSE /\ call = NoOutcome
    /\ ad = AdIdle /\ ck = CkIdle /\ fm = FmIdle
    /\ sx = SxIdle /\ ag = AgIdle /\ sv = SvIdle
    /\ \E l \in BOOLEAN : cc = [CcIdle EXCEPT !.on = TRUE, !.locked = l]

\* Caller t moves on to the statement at.
Goto(t, at) == cc' = [cc EXCEPT !.pc[t] = at]

\* An add that leaves the index as it is.
AddRowsNothing(idx, emb) == idx

\* self.index.add(self.embeddings): the rows are appended to the index that
\* self.index is at that moment.
AddRows(idx, emb) == Array(idx.rows \o emb.rows)

\* Caller t enters get_relevant_guidelines; under external mutual exclusion
\* only when no other call is under way.
CcStart(t) ==
    /\ cc.pc[t] = "idle"
    /\ cc.locked => \A u \in Callers \ {t} : cc.pc[u] \in {"idle", "done"}
    /\ Goto(t, "check")
    /\ UNCHANGED <<kbvars, ad, ck, fm, sx, ag, sv>>

\* _check_and_rebuild: the test of lines 189-194.
CcCheck(t) ==
    /\ cc.pc[t] = "check"
    /\ Goto(t, IF NeedsRebuild(KB, fs_exists, fs_mtime) THEN "load" ELSE "guard")
    /\ UNCHANGED <<kbvars, ad, ck, fm, sx, ag, sv>>

\* _build_index: self.chunks = self._load_and_chunk(), and the early return.
CcLoad(t) ==
    /\ cc.pc[t] = "load"
    /\ chunks' = LoadAndChunk(fs_doc)
    /\ Goto(t, IF chunks' = <<>> THEN "guard" ELSE "encode")
    /\ UNCHANGED <<fs_exists, fs_mtime, fs_doc, min_guidelines, max_guidelines,
                   embeddings, index, last_modified, born_absent, call, ad, ck, fm, sx, ag, sv>>

\* _build_index: self.embeddings = self.model.encode(texts of self.chunks)
CcEncode(t) ==
    /\ cc.pc[t] = "encode"
    /\ embeddings' = Array(EncodeChunks(chunks))
    /\ Goto(t, "new_index")
    /\ UNCHANGED <<fs_exists, fs_mtime, fs_doc, min_guidelines, max_guidelines,
                   chunks, index, last_modified, born_absent, call, ad, ck, fm, sx, ag, sv>>

\* _build_index: self.index = faiss.IndexFlatL2(dimension)
CcNewIndex(t) ==
    /\ cc.pc[t] = "new_index"
    /\ index' = Array(<<>>)
    /\ Goto(t, "add")
    /\ UNCHANGED <<fs_exists, fs_mtime, fs_doc, min_guidelines, max_guidelines,
                   chunks, embeddings, last_modified, born_absent, call, ad, ck, fm, sx, ag, sv>>

\* _build_index: self.index.add(self.embeddings.astype('float32'))
CcAdd(t) ==
    /\ cc.pc[t] = "add"
    /\ index' = AddRows(index, embeddings)
    /\ Goto(t, "stamp")
    /\ UNCHANGED <<fs_exists, fs_mtime, fs_doc, min_guidelines, max_guidelines,
                   chunks, embeddings, last_modified, born_absent, call, ad, ck, fm, sx, ag, sv>>

\* _build_index: self.last_modified = self.style_guide_path.stat().st_mtime
CcStamp(t) ==
    /\ cc.pc[t] = "stamp"
    /\ last_modified' = fs_mtime
    /\ Goto(t, "guard")
    /\ UNCHANGED <<fs_exists, fs_mtime, fs_doc, min_guidelines, max_guidelines,
                   chunks, embeddings, index, born_absent, call, ad, ck, fm, sx, ag, sv>>

\* get_relevant_guidelines: if not self.index or not self.chunks: return ""
CcGuard(t) ==
    /\ cc.pc[t] = "guard"
    /\ Goto(t, IF NothingIndexed(KB) THEN "done" ELSE "search")
    /\ UNCHANGED <<kbvars, ad, ck, fm, sx, ag, sv>>

\* get_relevant_guidelines: self.index.search(query_embedding, top_k)
CcSearch(t) ==
    /\ cc.pc[t] = "search"
    /\ cc' = [cc EXCEPT !.pc[t] = "fetch", !.obs[t].rows = index.rows]
    /\ UNCHANGED <<kbvars, ad, ck, fm, sx, ag, sv>>

\* get_relevant_guidelines: [self.chunks[idx] for idx in indices[0]]
CcFetch(t) ==
    /\ cc.pc[t] = "fetch"
    /\ cc' = [cc EXCEPT !.pc[t] = "done", !.obs[t].chunks = chunks,
                        !.obs[t].seen = TRUE]
    /\ UNCHANGED <<kbvars, ad, ck, fm, sx, ag, sv>>

CcNext ==
    \E t \in Callers :
        \/ CcStart(t) \/ CcCheck(t) \/ CcLoad(t) \/ CcEncode(t) \/ CcNewIndex(t)
        \/ CcAdd(t) \/ CcStamp(t) \/ CcGuard(t) \/ CcSearch(t) \/ CcFetch(t)

SpecConcurrent == CcInit /\ [][CcNext]_vars

\* A call searched an index that is not the index of the chunk list it took
\* its results from.
SawMixed(t) ==
    cc.obs[t].seen /\ cc.obs[t].rows # EncodeChunks(cc.obs[t].chunks)

\* C14: nothing in the instance keeps interleaved calls apart: a call reads
\* only a fully swapped generation (the index of the very chunk list it takes
\* its results from) when the calls are serialized by the host.
C14_SerializedCallsSeeWholeGeneration ==
    cc.locked => \A t \in Callers : ~SawMixed(t)

\* C14 witness: without serialization a call searched an index that is not
\* the index of the chunk list it then took its results from.
C14_Witness ==
    /\ ~cc.locked
    /\ \E t \in Callers : SawMixed(t)

----------------------------------------------------------------------------
(* Properties of the formatted block *)

\* The tags of the parts of one kind, in the order of the block.
TagsOf(out, kind) ==
    LET ps == SelectSeq(out, LAMBDA x : x.k = kind)
    IN [p \in 1..Len(ps) |-> ps[p].tag]

\* C21: for a non-empty list the block starts with the outer opening tag, ends
\* with the outer closing tag, has exactly one opening and one closing tag per
\* distinct section, has its opening tags in first-seen order of the sections,
\* and has every closing tag after all contents.
C21_BlockShape ==
    (fm.called /\ fm.guidelines # <<>>) =>
        LET out == fm.out
        IN /\ out[1].k = "outer_open" /\ out[Len(out)].k = "outer_close"
           /\ \A i \in 2..(Len(out) - 1) : out[i].k \in {"open", "content", "close"}
           /\ TagsOf(out, "open") = SectionsSeen(fm.guidelines, <<>>)
           /\ Len(TagsOf(out, "close")) = Cardinality(SectionSet(fm.guidelines))
           /\ \A sec \in SectionSet(fm.guidelines) :
                  /\ Cardinality(PartPos(out, [k |-> "open", tag |-> sec])) = 1
                  /\ Cardinality(PartPos(out, [k |-> "close", tag |-> sec])) = 1
           /\ \A i, j \in 1..Len(out) :
                  (out[i].k = "close" /\ out[j].k = "content") => j < i

\* C21 witness: a block for two or more sections, one of them shared by
\* several entries.
C21_Witness ==
    /\ fm.called
    /\ Cardinality(SectionSet(fm.guidelines)) >= 2
    /\ Len(fm.guidelines) > Cardinality(SectionSet(fm.guidelines))

\* C30: formatting the same list a second time gives the same block, the
\* order of the closing tags included.
C30_FormatterDeterministic ==
    fm.again => fm.out2 = fm.out

----------------------------------------------------------------------------
(* Properties of the search result and of the recorded modification time *)

\* The query text of a given word count.
QueryOf(words) == CHOOSE q \in Queries : q.words = words

\* The squared distance between the query of the call and the embedding of the
\* chunk its p-th result was taken from.
ResultDist(out, cs, p) ==
    Dist(Embed(ChunkAt(cs, out.labels[p]).content), QueryOf(out.words).id)

\* C24: the entries handed to the Formatter are in the order of non-decreasing
\* squared distance between their chunk's embedding and the query embedding,
\* entries at equal distance in the order of their chunks' positions.
C24_EntriesByDistance ==
    (call.op = "get" /\ call.formatter_calls = 1
        /\ Len(call.guidelines) = Len(call.labels))
        => \A p, o \in 1..Len(call.labels) :
               p < o => \/ ResultDist(call, chunks, p) < ResultDist(call, chunks, o)
                        \/ /\ ResultDist(call, chunks, p) = ResultDist(call, chunks, o)
                           /\ Looked(call, chunks)[p] <= Looked(call, chunks)[o]

\* C26: whenever a call has searched the index, every position returned is a
\* position of the chunk list, and the chunk there is the chunk whose embedding
\* the index holds at that position.
C26_PositionsAddressIndexedChunks ==
    (call.op = "get" /\ call.labels # <<>>)
        => \A p \in 1..Len(call.labels) :
               /\ 0 <= call.labels[p] /\ call.labels[p] < Len(chunks)
               /\ index.rows[call.labels[p] + 1]
                      = Embed(chunks[call.labels[p] + 1].content)

\* C27: last_modified changes only in a call whose rebuild indexed at least one
\* chunk, and then to the source's modification time, after which the source
\* as it is needs no rebuild; a rebuild that yields no chunks or fails leaves
\* last_modified as it was, and the source as it is still needs a rebuild.
C27_StampOnlyOnIndexedRebuild ==
    [][/\ last_modified' # last_modified
              => /\ call'.op = "get" /\ call'.rebuilt
                 /\ call'.raised # "encode_chunks" /\ chunks' # <<>>
       /\ (/\ call'.op = "get" /\ call'.rebuilt
           /\ call'.raised # "encode_chunks" /\ chunks' # <<>>)
              => /\ last_modified' = fs_mtime
                 /\ ~NeedsRebuild(Generation(chunks', embeddings', index', last_modified'),
                                  fs_exists', fs_mtime')
       /\ (/\ call'.op = "get" /\ call'.rebuilt
           /\ (call'.raised = "encode_chunks" \/ chunks' = <<>>))
              => /\ last_modified' = last_modified
                 /\ NeedsRebuild(Generation(chunks', embeddings', index', last_modified'),
                                 fs_exists', fs_mtime')]_vars

\* C27 witness: a rebuild of a source without chunks, on an instance that had
\* recorded a modification time before.
C27_Witness ==
    /\ call.op = "get" /\ call.rebuilt /\ chunks = <<>>
    /\ last_modified # NoMtime /\ fs_mtime > last_modified

----------------------------------------------------------------------------
(* Sentence harness: the loop of get_relevant_guidelines over the chunks the
   search returned, on chunk lists and queries drawn from small sets *)

\* Sentences of 30 characters with the ids given, one space between them.
RECURSIVE LongRun(_)
LongRun(ids) ==
    IF ids = <<>> THEN <<>>
    ELSE <<Text(Head(ids), 30)>>
         \o (IF Len(ids) = 1 THEN <<>> ELSE <<Sp>> \o LongRun(Tail(ids)))

\* Ten sentences of 20 characters: 209 characters, none passes the filter.
ShortRun == [p \in 1..19 |-> IF p % 2 = 1 THEN Text((p + 1) \div 2, 20) ELSE Sp]

\* Chunk contents: empty, one short sentence, many short ones, three long
\* ones, five long ones, and four long ones around a short one.
SxTexts ==
    {<<>>, <<Text(1, 10)>>, ShortRun, LongRun(<<4, 5, 6>>),
     LongRun(<<9, 1, 8, 2, 7>>),
     <<Text(1, 30), Sp, Text(2, 30), Sp, Text(5, 10), Sp, Text(3, 30), Sp,
       Text(4, 30)>>}

\* The chunks a search can return.
SxChunks == {Chunk("a", t, "section") : t \in SxTexts}

\* The hits of one search, nearest first.
SxRetrieved == {<<c>> : c \in SxChunks} \cup {<<c, d>> : c, d \in SxChunks}

\* The analysed texts: their embeddings lie on either side of zero.
SxQueries == {[words |-> 50, id |-> 2], [words |-> 50, id |-> 0 - 3]}

SxInit ==
    /\ fs_exists = FALSE /\ fs_mtime = 0 /\ fs_doc = DocEmpty
    /\ min_guidelines = 0 /\ max_guidelines = 0
    /\ chunks = <<>> /\ embeddings = NoArray /\ index = NoArray
    /\ last_modified = NoMtime /\ born_absent = TRUE /\ call = NoOutcome
    /\ ad = AdIdle /\ ck = CkIdle /\ fm = FmIdle /\ cc = CcIdle
    /\ ag = AgIdle /\ sv = SvIdle
    /\ \E r \in SxRetrieved, q \in SxQueries :
           sx = [SxIdle EXCEPT !.retrieved = r, !.query = q]

\* The loop over retrieved_chunks: texts holds what _extract_relevant_sentences
\* returned for each chunk, guidelines the list handed to the Formatter.
Rerank ==
    /\ ~sx.called
    /\ sx' = [sx EXCEPT
                 !.called = TRUE,
                 !.texts = [p \in 1..Len(sx.retrieved) |->
                               ExtractRelevantSentences(sx.retrieved[p].content,
                                                        sx.query, FALSE).text],
                 !.guidelines = BuildGuidelines(sx.retrieved, sx.query,
                                                FALSE).guidelines]
    /\ UNCHANGED <<kbvars, ad, ck, fm, cc, ag, sv>>

SxNext == Rerank

SpecSentences == SxInit /\ [][SxNext]_vars

\* The sentences of a chunk content that pass the length filter.
Survivors(text) ==
    SelectSeq(SplitSentences(text, <<>>),
              LAMBDA s : SentenceLen(s) >= MinSentenceLen + 1)

\* The similarity of a sentence to the query.
Similarity(s, query) == Embed(s.toks) * query.id

\* C22 as stated: whenever at most 3 sentences survive the filter the chunk
\* content is returned whole; otherwise exactly the 3 most similar sentences
\* are returned, in positional order.
C22_AtMostThreeReturnedWhole ==
    sx.called =>
        \A p \in 1..Len(sx.retrieved) :
            LET c == sx.retrieved[p].content
                S == Survivors(c)
            IN IF Len(S) <= MaxSentences
               THEN sx.texts[p] = c
               ELSE \E K \in SUBSET (1..Len(S)) :
                        /\ Cardinality(K) = MaxSentences
                        /\ \A k \in K, o \in (1..Len(S)) \ K :
                               Similarity(S[k], sx.query) >= Similarity(S[o], sx.query)
                        /\ sx.texts[p] = JoinSelected(S, K, 1)

\* C22, amended: with one to three surviving sentences the chunk content is
\* returned whole; with none, its first 200 characters are; with more than
\* three, exactly the 3 sentences most similar to the query are returned, in
\* their positional order in the chunk.
C22_RerankedByCount ==
    sx.called =>
        \A p \in 1..Len(sx.retrieved) :
            LET c == sx.retrieved[p].content
                S == Survivors(c)
            IN /\ Len(S) = 0 => sx.texts[p] = Take(c, FallbackLen)
               /\ Len(S) \in 1..MaxSentences => sx.texts[p] = c
               /\ Len(S) > MaxSentences =>
                      \E K \in SUBSET (1..Len(S)) :
                          /\ Cardinality(K) = MaxSentences
                          /\ \A k \in K, o \in (1..Len(S)) \ K :
                                 Similarity(S[k], sx.query) >= Similarity(S[o], sx.query)
                          /\ sx.texts[p] = JoinSelected(S, K, 1)

\* Five sentences survive and the first, third and fifth are returned.
C22_Witness ==
    /\ sx.called
    /\ \E p \in 1..Len(sx.retrieved) :
           LET S == Survivors(sx.retrieved[p].content)
           IN /\ Len(S) = 5
              /\ sx.texts[p] = JoinSelected(S, {1, 3, 5}, 1)
              /\ sx.texts[p] # sx.retrieved[p].content

\* C23: every chunk the search returned has exactly one entry in the
\* Formatter's input, at its own place; a chunk with no surviving sentence
\* has the first 200 characters of its content there.
C23_OneEntryPerHit ==
    sx.called =>
        /\ Len(sx.guidelines) = Len(sx.retrieved)
        /\ \A p \in 1..Len(sx.retrieved) :
               /\ sx.guidelines[p].section = sx.retrieved[p].section
               /\ Survivors(sx.retrieved[p].content) = <<>> =>
                      sx.guidelines[p].content
                          = Take(sx.retrieved[p].content, FallbackLen)

----------------------------------------------------------------------------
(* Save harness: TextAnalyzer.save_all_corrections on result lists drawn from
   small sets. A path is [stem, suffix]; a stem is a base name followed by
   marks copies of "_corrected". *)

PathOf(base, marks, suffix) ==
    [stem |-> [base |-> base, marks |-> marks], suffix |-> suffix]

\* file_path.parent / f"{file_path.stem}_corrected{file_path.suffix}"
CorrectedPath(file_path) ==
    [file_path EXCEPT !.stem.marks = file_path.stem.marks + 1]

\* file_path.with_suffix('.txt')
WithSuffixTxt(file_path) == [file_path EXCEPT !.suffix = ".txt"]

\* DocumentReader.write_file: the path of the file it writes.
WriteFile(file_path, file_format) ==
    IF file_format = "pdf" THEN WithSuffixTxt(file_path) ELSE file_path

\* TextAnalyzer.save_corrected_file: the file written and the path returned.
SaveCorrectedFile(file_path, file_format, overwrite) ==
    LET output_path == IF overwrite THEN file_path ELSE CorrectedPath(file_path)
    IN [written |-> WriteFile(output_path, file_format), returned |-> output_path]

\* The loop of save_all_corrections: a result without corrected text is
\* skipped.
RECURSIVE SaveAll(_, _)
SaveAll(results, overwrite) ==
    IF results = <<>> THEN <<>>
    ELSE LET r == Head(results)
             o == SaveCorrectedFile(r.file_path, r.file_format, overwrite)
         IN (IF r.corrected_text
             THEN <<[input |-> r.file_path, written |-> o.written,
                     returned |-> o.returned]>>
             ELSE <<>>)
            \o SaveAll(Tail(results), overwrite)

\* Input files, their formats, and whether the analysis gave corrected text.
SvPaths == {PathOf("x", m, x) : m \in 0..1, x \in {".txt", ".docx", ".pdf"}}

SvResults ==
    [file_path : SvPaths, file_format : {"txt", "docx", "pdf"},
     corrected_text : BOOLEAN]

SvLists ==
    {<<r>> : r \in SvResults}
    \cup {<<r, q>> : r \in {t \in SvResults : t.file_path.stem.marks = 0},
                     q \in {t \in SvResults : t.file_format = "pdf"}}

SvInit ==
    /\ fs_exists = FALSE /\ fs_mtime = 0 /\ fs_doc = DocEmpty
    /\ min_guidelines = 0 /\ max_guidelines = 0
    /\ chunks = <<>> /\ embeddings = NoArray /\ index = NoArray
    /\ last_modified = NoMtime /\ born_absent = TRUE /\ call = NoOutcome
    /\ ad = AdIdle /\ ck = CkIdle /\ fm = FmIdle /\ cc = CcIdle
    /\ sx = SxIdle /\ ag = AgIdle
    /\ \E rs \in SvLists, o \in BOOLEAN :
           sv = [SvIdle EXCEPT !.results = rs, !.overwrite = o]

\* TextAnalyzer.save_all_corrections.
SaveAllCorrections ==
    /\ ~sv.called
    /\ LET saved == SaveAll(sv.results, sv.overwrite)
       IN sv' = [sv EXCEPT
                    !.called = TRUE,
                    !.inputs = [p \in 1..Len(saved) |-> saved[p].input],
                    !.written = [p \in 1..Len(saved) |-> saved[p].written],
                    !.saved_paths = [p \in 1..Len(saved) |-> saved[p].returned]]
    /\ UNCHANGED <<kbvars, ad, ck, fm, cc, sx, ag>>

SvNext == SaveAllCorrections

SpecSave == SvInit /\ [][SvNext]_vars

\* C29: with overwrite=False no file is written at its input's own path, and
\* for each of the formats txt, docx and pdf the path reported is the path of
\* the file written.
C29_ReportedPathIsWritten ==
    (sv.called /\ ~sv.overwrite) =>
        \A p \in 1..Len(sv.written) :
            /\ sv.written[p] # sv.inputs[p]
            /\ sv.saved_paths[p] = sv.written[p]

----------------------------------------------------------------------------
(* Agent harness: AgenticAnalyzer.analyze_with_iterations, one round of the
   loop per step. A text is the number of corrections applied to the document
   read; the provider's answers are drawn from small sets. *)

\* Largest max_iterations tried.
MaxIterations == 3

\* What analyze_text can return: a dict with corrected_text, or the parsed
\* answer of the provider without that key; and the retrieval of style
\* guidelines raising inside think_and_analyze.
Analyses == {"corrected", "bare", "raises"}

\* What the provider can answer to the verification prompt.
Responses == {"done", "not_done", "raises", "unparsable"}

\* quality_score in a parsed verification answer.
ScoreOf(response) == IF response = "done" THEN 90 ELSE 40

\* The score of the except branch of verify_quality.
FailedScore == 50

\* verify_quality returned None.
NoTriple == [none |-> TRUE, is_done |-> FALSE, failed |-> FALSE,
             quality_score |-> 0]

\* AgenticAnalyzer.verify_quality: the whole body of the try sits under
\* hasattr(self.llm_provider, 'client'); without that attribute the function
\* falls off its end.
VerifyQuality(has_client, response) ==
    IF ~has_client THEN NoTriple
    ELSE IF response \in {"raises", "unparsable"}
    THEN [none |-> FALSE, is_done |-> TRUE, failed |-> TRUE,
          quality_score |-> FailedScore]
    ELSE [none |-> FALSE, is_done |-> (response = "done"), failed |-> FALSE,
          quality_score |-> ScoreOf(response)]

\* analysis_result.get("corrected_text", current_text)
CorrectedOr(analysis, current_text) ==
    IF analysis.has_text THEN analysis.corrected_text ELSE current_text

AgInit ==
    /\ fs_exists = FALSE /\ fs_mtime = 0 /\ fs_doc = DocEmpty
    /\ min_guidelines = 0 /\ max_guidelines = 0
    /\ chunks = <<>> /\ embeddings = NoArray /\ index = NoArray
    /\ last_modified = NoMtime /\ born_absent = TRUE /\ call = NoOutcome
    /\ ad = AdIdle /\ ck = CkIdle /\ fm = FmIdle /\ cc = CcIdle
    /\ sx = SxIdle /\ sv = SvIdle
    /\ \E m \in 0..MaxIterations, c \in BOOLEAN :
           ag = [AgIdle EXCEPT !.on = TRUE, !.max_iterations = m,
                               !.has_client = c, !.pc = "loop"]

\* One pass of the while loop.
Round ==
    /\ ag.pc = "loop"
    /\ ~ag.is_done /\ ag.iteration_count < ag.max_iterations
    /\ \E a \in Analyses, r \in Responses :
         LET analysis == [has_text |-> a = "corrected",
                          corrected_text |-> ag.current_text + 1]
             v == VerifyQuality(ag.has_client, r)
             seen == [text |-> ag.current_text, analysis |-> analysis,
                      response |-> r, verdict |-> v]
         IN IF a = "raises"
            THEN ag' = [ag EXCEPT !.iteration_count = @ + 1, !.pc = "raised",
                                  !.error = "retrieval"]
            ELSE IF v.none
            THEN ag' = [ag EXCEPT !.iteration_count = @ + 1, !.pc = "raised",
                                  !.error = "TypeError",
                                  !.rounds = Append(@, seen)]
            ELSE ag' = [ag EXCEPT
                           !.iteration_count = @ + 1,
                           !.is_done = v.is_done,
                           !.rounds = Append(@, seen),
                           !.iterations =
                               Append(@, [iteration |-> ag.iteration_count + 1,
                                          analysis |-> analysis,
                                          verification |-> v,
                                          is_done |-> v.is_done]),
                           !.current_text =
                               IF v.is_done THEN @ ELSE CorrectedOr(analysis, @)]
    /\ UNCHANGED <<kbvars, ad, ck, fm, cc, sx, sv>>

\* The loop has ended: final_result is put together from iterations[-1].
Finish ==
    /\ ag.pc = "loop"
    /\ ag.is_done \/ ag.iteration_count >= ag.max_iterations
    /\ IF ag.iterations = <<>>
       THEN ag' = [ag EXCEPT !.pc = "raised", !.error = "IndexError"]
       ELSE LET last == ag.iterations[Len(ag.iterations)]
            IN IF ~last.analysis.has_text
               THEN ag' = [ag EXCEPT !.pc = "raised", !.error = "KeyError"]
               ELSE ag' = [ag EXCEPT
                              !.pc = "returned",
                              !.result =
                                  [built |-> TRUE,
                                   final_corrected_text |-> last.analysis.corrected_text,
                                   total_iterations |-> ag.iteration_count,
                                   final_quality_score |-> last.verification.quality_score]]
    /\ UNCHANGED <<kbvars, ad, ck, fm, cc, sx, sv>>

AgNext == Round \/ Finish

SpecAgent == AgInit /\ [][AgNext]_vars

\* C25: a verification that fails (the provider call raises, the answer does
\* not parse) gives is_done = true with quality score 50 and is the last
\* round, no error of the verification reaches the caller, and verify_quality
\* returns a triple for every provider, one without a client attribute
\* included.
C25_VerificationFailureEndsLoop ==
    /\ ag.error # "TypeError"
    /\ \A p \in 1..Len(ag.rounds) :
           /\ ~ag.rounds[p].verdict.none
           /\ ag.rounds[p].response \in {"raises", "unparsable"} =>
                  /\ ag.rounds[p].verdict.is_done
                  /\ ag.rounds[p].verdict.quality_score = FailedScore
                  /\ p = Len(ag.rounds)

\* C28: for every max_iterations >= 0, with a provider that verifies and
\* guideline retrieval that does not raise, the call ends with a result: at
\* most max_iterations rounds, none after a round verified as done, each
\* further round given the corrected text of the round before, and
\* total_iterations and final_corrected_text taken from the recorded
\* iterations.
C28_TerminatesWithResult ==
    (ag.on /\ ag.has_client /\ ag.error # "retrieval") =>
        /\ ag.error = "none"
        /\ Len(ag.rounds) <= ag.max_iterations
        /\ \A p \in 1..Len(ag.rounds) - 1 :
               /\ ~ag.rounds[p].verdict.is_done
               /\ ag.rounds[p + 1].text
                      = CorrectedOr(ag.rounds[p].analysis, ag.rounds[p].text)
        /\ ag.pc = "returned" =>
               /\ ag.result.built
               /\ ag.result.total_iterations = Len(ag.iterations)
               /\ ag.result.final_corrected_text
                      = ag.iterations[Len(ag.iterations)].analysis.corrected_text

====
